---- MODULE Spec2Model ----
(***************************************************************************)
(* A model of the type-level classifiers of icapri/utilitypes              *)
(* (src/src/utility-types.ts, src/src/utilitypes.ts) as the TypeScript     *)
(* checker evaluates them (strictNullChecks on, exactOptionalPropertyTypes *)
(* off).                                                                   *)
(*                                                                         *)
(* A value type is a set of union constituents: {} is never, {"any"} is    *)
(* any, {"unknown"} is unknown, {"fn"} is a function type such as          *)
(* () => void.  An object shape is a function from key names to members    *)
(* [type, ro, opt]: the declared type, the readonly modifier, the `?`      *)
(* modifier.  A numeric type argument is the wide type number or a union   *)
(* of numeric literal types.                                               *)
(***************************************************************************)
EXTENDS Integers, Sequences, FiniteSets

VARIABLES pc,
          TObject, readonlyKeys, nonReadonly, optionalKey, requiredKey,
          funcKey, nonFuncKey, pickRequired,
          TNumber, integer, positiveInteger, negativeInteger,
          X, Y, ifEquals

vars == <<pc, TObject, readonlyKeys, nonReadonly, optionalKey, requiredKey,
          funcKey, nonFuncKey, pickRequired,
          TNumber, integer, positiveInteger, negativeInteger,
          X, Y, ifEquals>>

keyVars == <<TObject, readonlyKeys, nonReadonly, optionalKey, requiredKey,
             funcKey, nonFuncKey, pickRequired>>
numVars == <<TNumber, integer, positiveInteger, negativeInteger>>
eqVars == <<X, Y, ifEquals>>

(***************************************************************************)
(* Bounds of the explored inputs.                                          *)
(***************************************************************************)
\* most keys of an enumerated object shape
MaxKeys == 2
\* most keys of an operand of the equality predicate
MaxEqKeys == 1
\* largest integer part of a numeric literal
MaxInt == 10
\* largest fractional digit of a numeric literal (0: no fraction written)
MaxFrac == 2
\* most alternatives of a union of numeric literals
MaxAlt == 2

(***************************************************************************)
(* Value types.                                                            *)
(***************************************************************************)
Never == {}
Any == {"any"}
Unknown == {"unknown"}
Undefined == {"undefined"}
Fn == {"fn"}

\* A | B, with any and unknown absorbing the rest.
UnionType(A, B) ==
  IF "any" \in A \cup B THEN Any
  ELSE IF "unknown" \in A \cup B THEN Unknown
  ELSE A \cup B

\* The value types members are declared with.
ValueTypes ==
  { Never, Undefined, {"number"}, {"string"}, Fn,
    {"fn", "undefined"}, {"fn", "number"}, {"number", "undefined"},
    {"string", "undefined"}, Any, Unknown }

\* The value types of the operands of the equality predicate.
EqValueTypes == { {"number"}, {"number", "undefined"}, Undefined, Any }

(***************************************************************************)
(* Object shapes.                                                          *)
(***************************************************************************)
KeyNames == <<"a", "b", "run", "d">>

Member == [type : ValueTypes, ro : BOOLEAN, opt : BOOLEAN]

\* The shape of the scenario: { readonly a: number; b?: string; run(): void }.
ScenarioShape ==
  [a |-> [type |-> {"number"}, ro |-> TRUE, opt |-> FALSE],
   b |-> [type |-> {"string"}, ro |-> FALSE, opt |-> TRUE],
   run |-> [type |-> Fn, ro |-> FALSE, opt |-> FALSE]]

\* The shapes of n keys, over the first n key names.
ShapesOfSize(n) == [{KeyNames[i] : i \in 1..n} -> Member]

Shapes == {ScenarioShape} \cup UNION {ShapesOfSize(n) : n \in 0..MaxKeys}

\* keyof T
KeyOf(T) == DOMAIN T

\* The type of property P as the checker reads it: an optional property's
\* type includes undefined.
PropertyType(P) == IF P.opt THEN UnionType(P.type, Undefined) ELSE P.type

\* T[K]
IndexedAccess(T, K) == PropertyType(T[K])

\* Fault variant of Slice: a mapped type that is not homomorphic and loses
\* the modifiers.
SliceWithoutModifiers(T, K) ==
  [Q \in {K} |-> [type |-> IndexedAccess(T, K), ro |-> FALSE, opt |-> FALSE]]

\* { [Q in K]: T[K] }: the homomorphic single-member slice, which keeps the
\* modifiers of T's member K.
Slice(T, K) ==
  [Q \in {K} |-> [type |-> IndexedAccess(T, K), ro |-> T[K].ro, opt |-> T[K].opt]]

\* { -readonly [Q in K]: T[K] }: the slice with the readonly modifier removed.
MutableSlice(T, K) ==
  [Q \in {K} |-> [type |-> IndexedAccess(T, K), ro |-> FALSE, opt |-> T[K].opt]]

(***************************************************************************)
(* IfEquals: the two generic signatures <T>() => T extends X ? 1 : 2 and   *)
(* <T>() => T extends Y ? 1 : 2 are related exactly when the checker finds *)
(* X and Y identical: the same properties, each with the same optionality, *)
(* the same readonly modifier and an identical type.                       *)
(***************************************************************************)
\* Fault variant of CompareProperties: the readonly modifier is not compared.
ComparePropertiesNoReadonly(P, Q) ==
  /\ P.opt = Q.opt
  /\ PropertyType(P) = PropertyType(Q)

CompareProperties(P, Q) ==
  /\ P.opt = Q.opt
  /\ P.ro = Q.ro
  /\ PropertyType(P) = PropertyType(Q)

IsTypeIdenticalTo(S, T) ==
  /\ DOMAIN S = DOMAIN T
  /\ \A K \in DOMAIN S : CompareProperties(S[K], T[K])

IfEquals(S, T, A, B) == IF IsTypeIdenticalTo(S, T) THEN A ELSE B

(***************************************************************************)
(* The key-set extractors.  A key set is the union, over keyof T, of each  *)
(* member's result: {K} or never.                                          *)
(***************************************************************************)
\* Fault variant of NonReadonly: the branches of IfEquals exchanged.
NonReadonlyFlipped(T) ==
  UNION { IfEquals(Slice(T, K), MutableSlice(T, K), {}, {K}) : K \in KeyOf(T) }

NonReadonly(T) ==
  UNION { IfEquals(Slice(T, K), MutableSlice(T, K), {K}, {}) : K \in KeyOf(T) }

ReadonlyKeys(T) ==
  UNION { IfEquals(Slice(T, K), MutableSlice(T, K), {}, {K}) : K \in KeyOf(T) }

\* {} extends T: the empty record is assignable to T when T requires no member.
EmptyExtends(T) == \A K \in DOMAIN T : T[K].opt

\* Fault variant of OptionalKey: a member is optional when its type includes
\* undefined.
OptionalKeyByUndefined(T) ==
  UNION { IF "undefined" \in IndexedAccess(T, K) THEN {K} ELSE {} : K \in KeyOf(T) }

OptionalKey(T) ==
  UNION { IF EmptyExtends(Slice(T, K)) THEN {K} ELSE {} : K \in KeyOf(T) }

RequiredKey(T) ==
  UNION { IF EmptyExtends(Slice(T, K)) THEN {} ELSE {K} : K \in KeyOf(T) }

\* Fault variant of PickRequired: the readonly modifier is dropped.
PickRequiredMutable(T) ==
  [P \in RequiredKey(T) |->
     [type |-> IndexedAccess(T, P), ro |-> FALSE, opt |-> T[P].opt]]

\* Pick<T, RequiredKey<T>> = { [P in RequiredKey<T>]: T[P] }, homomorphic in T.
PickRequired(T) ==
  [P \in RequiredKey(T) |->
     [type |-> IndexedAccess(T, P), ro |-> T[P].ro, opt |-> T[P].opt]]

\* T extends undefined ? never : T, distributed over the constituents of T;
\* for any the result is the union of both branches.
NonIndefinable(T) ==
  IF T = Any THEN UnionType(Never, T)
  ELSE IF T = Unknown THEN T
  ELSE {c \in T : c # "undefined"}

\* Whether T is assignable to Function (T is not any).
AssignableToFunction(T) == T # Unknown /\ \A c \in T : c = "fn"

\* C extends Function ? A : B for a check type C that is not a naked type
\* parameter: no distribution; any yields the union of both branches.
ExtendsFunction(C, A, B) ==
  IF C = Any THEN A \cup B
  ELSE IF AssignableToFunction(C) THEN A ELSE B

FuncKey(T) ==
  UNION { ExtendsFunction(NonIndefinable(IndexedAccess(T, K)), {K}, {}) : K \in KeyOf(T) }

NonFuncKey(T) ==
  UNION { ExtendsFunction(NonIndefinable(IndexedAccess(T, K)), {}, {K}) : K \in KeyOf(T) }

(***************************************************************************)
(* Resolving the extractors for one object shape, one alias after another. *)
(***************************************************************************)
NoNumber == [wide |-> FALSE, lits |-> {}]

InitKeys ==
  /\ pc = "NonReadonly"
  /\ TObject \in Shapes
  /\ readonlyKeys = {} /\ nonReadonly = {} /\ optionalKey = {} /\ requiredKey = {}
  /\ funcKey = {} /\ nonFuncKey = {} /\ pickRequired = <<>>
  /\ TNumber = NoNumber /\ integer = NoNumber
  /\ positiveInteger = NoNumber /\ negativeInteger = NoNumber
  /\ X = <<>> /\ Y = <<>> /\ ifEquals = FALSE

ResolveNonReadonly ==
  /\ pc = "NonReadonly"
  /\ nonReadonly' = NonReadonly(TObject)
  /\ pc' = "OptionalKey"
  /\ UNCHANGED <<TObject, readonlyKeys, optionalKey, requiredKey, funcKey,
                 nonFuncKey, pickRequired, numVars, eqVars>>

ResolveOptionalKey ==
  /\ pc = "OptionalKey"
  /\ optionalKey' = OptionalKey(TObject)
  /\ pc' = "PickRequired"
  /\ UNCHANGED <<TObject, readonlyKeys, nonReadonly, requiredKey, funcKey,
                 nonFuncKey, pickRequired, numVars, eqVars>>

ResolvePickRequired ==
  /\ pc = "PickRequired"
  /\ pickRequired' = PickRequired(TObject)
  /\ pc' = "ReadonlyKeys"
  /\ UNCHANGED <<TObject, readonlyKeys, nonReadonly, optionalKey, requiredKey,
                 funcKey, nonFuncKey, numVars, eqVars>>

ResolveReadonlyKeys ==
  /\ pc = "ReadonlyKeys"
  /\ readonlyKeys' = ReadonlyKeys(TObject)
  /\ pc' = "RequiredKey"
  /\ UNCHANGED <<TObject, nonReadonly, optionalKey, requiredKey, funcKey,
                 nonFuncKey, pickRequired, numVars, eqVars>>

ResolveRequiredKey ==
  /\ pc = "RequiredKey"
  /\ requiredKey' = RequiredKey(TObject)
  /\ pc' = "FuncKey"
  /\ UNCHANGED <<TObject, readonlyKeys, nonReadonly, optionalKey, funcKey,
                 nonFuncKey, pickRequired, numVars, eqVars>>

ResolveFuncKey ==
  /\ pc = "FuncKey"
  /\ funcKey' = FuncKey(TObject)
  /\ pc' = "NonFuncKey"
  /\ UNCHANGED <<TObject, readonlyKeys, nonReadonly, optionalKey, requiredKey,
                 nonFuncKey, pickRequired, numVars, eqVars>>

ResolveNonFuncKey ==
  /\ pc = "NonFuncKey"
  /\ nonFuncKey' = NonFuncKey(TObject)
  /\ pc' = "done"
  /\ UNCHANGED <<TObject, readonlyKeys, nonReadonly, optionalKey, requiredKey,
                 funcKey, pickRequired, numVars, eqVars>>

NextKeys ==
  \/ ResolveNonReadonly
  \/ ResolveOptionalKey
  \/ ResolvePickRequired
  \/ ResolveReadonlyKeys
  \/ ResolveRequiredKey
  \/ ResolveFuncKey
  \/ ResolveNonFuncKey

SpecKeys == InitKeys /\ [][NextKeys]_vars

(***************************************************************************)
(* Numeric type arguments.  A numeric literal type is the number it        *)
(* denotes, [neg, int, frac]: -5.2 is [neg |-> TRUE, int |-> 5,            *)
(* frac |-> 2]; frac = 0 is an integral value.  The spelling -0 denotes    *)
(* the number 0.                                                           *)
(***************************************************************************)
\* The numeric literal type of a spelling in a type argument.
NumberLiteralType(neg, int, frac) ==
  [neg |-> neg /\ (int # 0 \/ frac # 0), int |-> int, frac |-> frac]

LiteralTypes ==
  { NumberLiteralType(n, i, f) : n \in BOOLEAN, i \in 0..MaxInt, f \in 0..MaxFrac }

\* The wide type number.
WideNumber == [wide |-> TRUE, lits |-> {}]

\* A union of numeric literal types; of none, never.
LiteralUnion(L) == [wide |-> FALSE, lits |-> L]

NeverNumber == LiteralUnion({})

\* The sets of at most n of the literal types.
RECURSIVE LiteralSets(_)
LiteralSets(n) ==
  IF n = 0 THEN {{}}
  ELSE LET P == LiteralSets(n - 1)
       IN  P \cup { M \cup {N} : M \in P, N \in LiteralTypes }

NumberArguments ==
  {WideNumber} \cup { LiteralUnion(L) : L \in LiteralSets(MaxAlt) }

DigitChar == <<"0", "1", "2", "3", "4", "5", "6", "7", "8", "9">>

RECURSIVE DigitsOf(_)
DigitsOf(n) ==
  IF n < 10 THEN <<DigitChar[n + 1]>>
  ELSE DigitsOf(n \div 10) \o <<DigitChar[(n % 10) + 1]>>

\* `${N}` for one numeric literal type N: its canonical text.
TemplateText(N) ==
  (IF N.neg THEN <<"-">> ELSE <<>>)
    \o DigitsOf(N.int)
    \o (IF N.frac # 0 THEN <<".">> \o DigitsOf(N.frac) ELSE <<>>)

\* `${TNumber}`: the union of the texts of the alternatives of TNumber.
TemplateTexts(T) == { TemplateText(N) : N \in T.lits }

\* t extends `${string}.${string}`: some "." splits t in two strings.
MatchesFraction(t) ==
  \E i \in 1..Len(t) : t[i] = "."

\* t extends `-${string}`: "-" followed by a string.
MatchesMinus(t) == Len(t) >= 1 /\ t[1] = "-"

\* number extends TNumber
NumberExtends(T) == T.wide

\* Fault variant of Integer: the fraction test is left out.
IntegerIgnoringFraction(T) ==
  IF NumberExtends(T) THEN NeverNumber ELSE T

\* A union is assignable to the pattern when every alternative is; never is.
Integer(T) ==
  IF NumberExtends(T) THEN NeverNumber
  ELSE IF \A t \in TemplateTexts(T) : MatchesFraction(t) THEN NeverNumber
  ELSE T

\* Fault variant of PositiveInteger: only the sign is tested.
PositiveIntegerSignOnly(T) ==
  IF NumberExtends(T) THEN NeverNumber
  ELSE IF \A t \in TemplateTexts(T) : MatchesMinus(t) THEN NeverNumber
  ELSE T

PositiveInteger(T) ==
  IF NumberExtends(T) THEN NeverNumber
  ELSE IF \A t \in TemplateTexts(T) : MatchesMinus(t) \/ MatchesFraction(t)
    THEN NeverNumber
  ELSE T

NegativeInteger(T) ==
  IF NumberExtends(T) THEN NeverNumber
  ELSE IF \A t \in TemplateTexts(T) : MatchesFraction(t) THEN NeverNumber
  ELSE IF \A t \in TemplateTexts(T) : MatchesMinus(t) THEN T
  ELSE NeverNumber

(***************************************************************************)
(* Resolving the numeric classifiers for one type argument.                *)
(***************************************************************************)
InitNum ==
  /\ pc = "Integer"
  /\ TNumber \in NumberArguments
  /\ integer = NoNumber /\ positiveInteger = NoNumber /\ negativeInteger = NoNumber
  /\ TObject = <<>>
  /\ readonlyKeys = {} /\ nonReadonly = {} /\ optionalKey = {} /\ requiredKey = {}
  /\ funcKey = {} /\ nonFuncKey = {} /\ pickRequired = <<>>
  /\ X = <<>> /\ Y = <<>> /\ ifEquals = FALSE

ResolveInteger ==
  /\ pc = "Integer"
  /\ integer' = Integer(TNumber)
  /\ pc' = "NegativeInteger"
  /\ UNCHANGED <<TNumber, positiveInteger, negativeInteger, keyVars, eqVars>>

ResolveNegativeInteger ==
  /\ pc = "NegativeInteger"
  /\ negativeInteger' = NegativeInteger(TNumber)
  /\ pc' = "PositiveInteger"
  /\ UNCHANGED <<TNumber, integer, positiveInteger, keyVars, eqVars>>

ResolvePositiveInteger ==
  /\ pc = "PositiveInteger"
  /\ positiveInteger' = PositiveInteger(TNumber)
  /\ pc' = "done"
  /\ UNCHANGED <<TNumber, integer, negativeInteger, keyVars, eqVars>>

NextNum ==
  \/ ResolveInteger
  \/ ResolveNegativeInteger
  \/ ResolvePositiveInteger

SpecNum == InitNum /\ [][NextNum]_vars

(***************************************************************************)
(* Resolving the equality predicate for two object shapes.                 *)
(***************************************************************************)
EqMember == [type : EqValueTypes, ro : BOOLEAN, opt : BOOLEAN]

EqShapes ==
  UNION { [D -> EqMember] : D \in {E \in SUBSET {"a", "b"} : Cardinality(E) <= MaxEqKeys} }

InitEq ==
  /\ pc = "IfEquals"
  /\ X \in EqShapes
  /\ Y \in EqShapes
  /\ ifEquals = FALSE
  /\ TObject = <<>>
  /\ readonlyKeys = {} /\ nonReadonly = {} /\ optionalKey = {} /\ requiredKey = {}
  /\ funcKey = {} /\ nonFuncKey = {} /\ pickRequired = <<>>
  /\ TNumber = NoNumber /\ integer = NoNumber
  /\ positiveInteger = NoNumber /\ negativeInteger = NoNumber

\* IfEquals<X, Y, true, false>
ResolveIfEquals ==
  /\ pc = "IfEquals"
  /\ ifEquals' = IfEquals(X, Y, TRUE, FALSE)
  /\ pc' = "done"
  /\ UNCHANGED <<X, Y, keyVars, numVars>>

NextEq == ResolveIfEquals

SpecEq == InitEq /\ [][NextEq]_vars

(***************************************************************************)
(* Properties of the key-set extractors (SpecKeys).                        *)
(***************************************************************************)
\* C1: ReadonlyKeys<S> and NonReadonly<S> partition the keys of S: no key is
\* in both and every key is in one of them, whatever its value type or
\* optionality; the readonly ones are those declared readonly.
C1_ReadonlyPartition ==
  pc = "done" =>
    /\ readonlyKeys \cap nonReadonly = {}
    /\ readonlyKeys \cup nonReadonly = DOMAIN TObject
    /\ \A K \in DOMAIN TObject : K \in readonlyKeys <=> TObject[K].ro

\* A resolved shape with a readonly optional member and a writable member.
C1_Witness ==
  /\ pc = "done"
  /\ \E K \in readonlyKeys : TObject[K].opt
  /\ nonReadonly # {}

\* C2: OptionalKey<S> and RequiredKey<S> partition the keys of S, and a key
\* is optional exactly when it is declared with `?`: a required member whose
\* type includes undefined is required.
C2_OptionalPartition ==
  pc = "done" =>
    /\ optionalKey \cap requiredKey = {}
    /\ optionalKey \cup requiredKey = DOMAIN TObject
    /\ \A K \in DOMAIN TObject : K \in optionalKey <=> TObject[K].opt
    /\ \A K \in DOMAIN TObject :
         (~TObject[K].opt /\ "undefined" \in TObject[K].type) => K \in requiredKey

\* A resolved shape with an optional member and a required member whose type
\* includes undefined.
C2_Witness ==
  /\ pc = "done"
  /\ optionalKey # {}
  /\ \E K \in requiredKey : "undefined" \in TObject[K].type

\* C3: FuncKey<S> and NonFuncKey<S> partition the keys of S for every member
\* value type.
C3_FuncPartition ==
  pc = "done" =>
    /\ funcKey \cap nonFuncKey = {}
    /\ funcKey \cup nonFuncKey = DOMAIN TObject

\* C4: PickRequired<S> has exactly the keys of RequiredKey<S>, no optional
\* key among them, each with the value type and the readonly modifier it has
\* in S.
C4_PickRequired ==
  pc = "done" =>
    /\ DOMAIN pickRequired = requiredKey
    /\ \A K \in DOMAIN pickRequired :
         /\ ~TObject[K].opt
         /\ ~pickRequired[K].opt
         /\ pickRequired[K].type = TObject[K].type
         /\ pickRequired[K].ro = TObject[K].ro
    /\ \A K \in DOMAIN TObject : ~TObject[K].opt => K \in DOMAIN pickRequired

\* A resolved shape with an optional member left out and a required readonly
\* member kept.
C4_Witness ==
  /\ pc = "done"
  /\ \E K \in DOMAIN TObject : TObject[K].opt /\ K \notin DOMAIN pickRequired
  /\ \E K \in DOMAIN pickRequired : pickRequired[K].ro

\* C6: for { readonly a: number; b?: string; run(): void } the extractors
\* give ReadonlyKeys = {a}, NonReadonly = {b, run}, OptionalKey = {b},
\* RequiredKey = {a, run}, FuncKey = {run}, NonFuncKey = {a, b}.
C6_Scenario ==
  (pc = "done" /\ TObject = ScenarioShape) =>
    /\ readonlyKeys = {"a"}
    /\ nonReadonly = {"b", "run"}
    /\ optionalKey = {"b"}
    /\ requiredKey = {"a", "run"}
    /\ funcKey = {"run"}
    /\ nonFuncKey = {"a", "b"}

\* The scenario's shape, resolved.
C6_Witness ==
  /\ pc = "done"
  /\ TObject = ScenarioShape
  /\ funcKey = {"run"}

\* The member type with undefined removed.
WithoutUndefined(T) == T \ {"undefined"}

\* A type that can be called: any, or a union of function types.
Callable(T) == T = Any \/ (T # {} /\ \A c \in T : c = "fn")

\* C9: an optional function member (run?: () => void) is in FuncKey<S> and
\* not in NonFuncKey<S>, and a key is in FuncKey<S> only if its member's
\* type with undefined removed is callable.
C9_FuncAfterStrip ==
  pc = "done" =>
    \A K \in DOMAIN TObject :
      /\ (TObject[K].opt /\ TObject[K].type \in {Fn, {"fn", "undefined"}})
           => (K \in funcKey /\ K \notin nonFuncKey)
      /\ K \in funcKey => Callable(WithoutUndefined(IndexedAccess(TObject, K)))

(***************************************************************************)
(* Properties of the numeric classifiers (SpecNum).                        *)
(***************************************************************************)
\* The type argument that is the one literal spelled neg/int/frac.
Literal(neg, int, frac) == LiteralUnion({NumberLiteralType(neg, int, frac)})

\* TNumber is a single numeric literal type.
SingleLiteral(T) == ~T.wide /\ Cardinality(T.lits) = 1

\* The canonical text of the single literal T.
TextOf(T) == TemplateText(CHOOSE N \in T.lits : TRUE)

HasDot(t) == "." \in {t[i] : i \in DOMAIN t}

LeadingMinus(t) == Head(t) = "-"

\* C5 as stated: the classifiers give 5 integer, positive, not negative; -5
\* integer, not positive, negative; 5.2 not integer, positive, not negative;
\* -5.2 not integer, not positive, negative; and for every single literal N,
\* integer iff its text has no ".", negative iff its text starts with "-",
\* positive iff it does not.  The sign classifiers of the library are
\* PositiveInteger and NegativeInteger.
C5_TableAsStated ==
  pc = "done" =>
    LET isInteger == integer = TNumber
        isPositive == positiveInteger = TNumber
        isNegative == negativeInteger = TNumber
    IN  /\ TNumber = Literal(FALSE, 5, 0) => (isInteger /\ isPositive /\ ~isNegative)
        /\ TNumber = Literal(TRUE, 5, 0) => (isInteger /\ ~isPositive /\ isNegative)
        /\ TNumber = Literal(FALSE, 5, 2) => (~isInteger /\ isPositive /\ ~isNegative)
        /\ TNumber = Literal(TRUE, 5, 2) => (~isInteger /\ ~isPositive /\ isNegative)
        /\ SingleLiteral(TNumber) =>
             /\ isInteger <=> ~HasDot(TextOf(TNumber))
             /\ isNegative <=> LeadingMinus(TextOf(TNumber))
             /\ isPositive <=> ~LeadingMinus(TextOf(TNumber))

\* C5, amended: the classifiers are Integer, PositiveInteger and
\* NegativeInteger.  5 is accepted by Integer and PositiveInteger and
\* rejected by NegativeInteger; -5 is accepted by Integer and NegativeInteger
\* and rejected by PositiveInteger; 5.2 and -5.2 are rejected by all three.
\* For every single literal N, Integer accepts N iff its text has no ".",
\* NegativeInteger accepts N iff its text starts with "-" and has no ".",
\* PositiveInteger accepts N iff its text has no leading "-" and no ".".
C5_LiteralTable ==
  pc = "done" =>
    LET isInteger == integer = TNumber
        isPositiveInteger == positiveInteger = TNumber
        isNegativeInteger == negativeInteger = TNumber
    IN  /\ TNumber = Literal(FALSE, 5, 0) =>
             (isInteger /\ isPositiveInteger /\ ~isNegativeInteger)
        /\ TNumber = Literal(TRUE, 5, 0) =>
             (isInteger /\ ~isPositiveInteger /\ isNegativeInteger)
        /\ TNumber = Literal(FALSE, 5, 2) =>
             (integer = NeverNumber /\ positiveInteger = NeverNumber
                /\ negativeInteger = NeverNumber)
        /\ TNumber = Literal(TRUE, 5, 2) =>
             (integer = NeverNumber /\ positiveInteger = NeverNumber
                /\ negativeInteger = NeverNumber)
        /\ SingleLiteral(TNumber) =>
             /\ isInteger <=> ~HasDot(TextOf(TNumber))
             /\ isNegativeInteger <=>
                  (LeadingMinus(TextOf(TNumber)) /\ ~HasDot(TextOf(TNumber)))
             /\ isPositiveInteger <=>
                  (~LeadingMinus(TextOf(TNumber)) /\ ~HasDot(TextOf(TNumber)))

\* The literal -5.2, resolved and rejected by all three classifiers.
C5_Witness ==
  /\ pc = "done"
  /\ TNumber = Literal(TRUE, 5, 2)
  /\ TextOf(TNumber) = <<"-", "5", ".", "2">>
  /\ integer = NeverNumber
  /\ positiveInteger = NeverNumber
  /\ negativeInteger = NeverNumber

\* C8: Integer, PositiveInteger and NegativeInteger yield never for every
\* argument that is not a single numeric literal type: the wide type number
\* and every union of literals.
C8_RejectsNonLiterals ==
  (pc = "done" /\ ~SingleLiteral(TNumber)) =>
    /\ integer = NeverNumber
    /\ positiveInteger = NeverNumber
    /\ negativeInteger = NeverNumber

\* C10: for every single literal N, PositiveInteger accepts N iff Integer
\* accepts N and N's text has no leading "-", NegativeInteger accepts N iff
\* Integer accepts N and N's text starts with "-"; so a literal Integer
\* accepts (0 included) is accepted by exactly one of the two, and a literal
\* Integer rejects by neither.
C10_SignSplitsInteger ==
  (pc = "done" /\ SingleLiteral(TNumber)) =>
    LET intAcc == integer = TNumber
        posAcc == positiveInteger = TNumber
        negAcc == negativeInteger = TNumber
        minus == TextOf(TNumber)[1] = "-"
    IN  /\ posAcc <=> (intAcc /\ ~minus)
        /\ negAcc <=> (intAcc /\ minus)
        /\ intAcc => (posAcc # negAcc)
        /\ ~intAcc => (~posAcc /\ ~negAcc)
        /\ positiveInteger \in {TNumber, NeverNumber}
        /\ negativeInteger \in {TNumber, NeverNumber}

\* The literal 0 (spelled -0), resolved: positive, not negative.
C10_Witness ==
  /\ pc = "done"
  /\ TNumber = Literal(TRUE, 0, 0)
  /\ integer = TNumber
  /\ positiveInteger = TNumber
  /\ negativeInteger = NeverNumber

(***************************************************************************)
(* Properties of the equality predicate (SpecEq).                          *)
(***************************************************************************)
\* The values a member admits: the constituents of its type, and undefined
\* when it may be absent.
Admits(P) ==
  IF P.type = Any THEN Any
  ELSE P.type \cup (IF P.opt THEN {"undefined"} ELSE {})

\* X and Y are the same type: the same keys, each with the same readonly
\* flag, the same optionality and the same admitted values.
SameType(S, T) ==
  /\ DOMAIN S = DOMAIN T
  /\ \A K \in DOMAIN S :
       /\ S[K].ro = T[K].ro
       /\ S[K].opt = T[K].opt
       /\ Admits(S[K]) = Admits(T[K])

ReadonlyA == [a |-> [type |-> {"number"}, ro |-> TRUE, opt |-> FALSE]]

WritableA == [a |-> [type |-> {"number"}, ro |-> FALSE, opt |-> FALSE]]

\* C7: IfEquals<X, Y, A, B> yields A iff X and Y are exactly the same type,
\* readonly flags and optionality included, and B otherwise;
\* { readonly a: number } and { a: number } are not equal.
C7_IfEqualsExact ==
  pc = "done" =>
    /\ ifEquals <=> SameType(X, Y)
    /\ (X = ReadonlyA /\ Y = WritableA) => ~ifEquals
    /\ (X = WritableA /\ Y = ReadonlyA) => ~ifEquals

\* { readonly a: number } against { a: number }, resolved as not equal.
C7_Witness ==
  /\ pc = "done"
  /\ X = ReadonlyA
  /\ Y = WritableA
  /\ ~ifEquals

====
